---------------------------- MODULE Spec2Model ----------------------------
(***************************************************************************)
(* A model of the Bored API client (src/src/lib.rs): the ActivityType wire *)
(* mapping, the criterion catalog and its validation predicates, the       *)
(* CriteriaSelection builder, the response decoder (deserialize) and the   *)
(* client facade (random / by_criteria).                                   *)
(*                                                                         *)
(* Rust Strings are sequences of one-character strings, so that parsing    *)
(* and formatting are computed character by character.  A u64 is its       *)
(* canonical sequence of decimal digits (no leading zero but for <<0>>),   *)
(* which keeps the full 64-bit range.  An f64 is a sign and a magnitude in *)
(* tenths, or NaN, or an infinity.                                         *)
(***************************************************************************)
EXTENDS Integers, Sequences, FiniteSets

VARIABLES
    pc,        \* position of the current call
    entry,     \* the entry point of the current call: "random" | "by_criteria"
    sel,       \* CriteriaSelection.parameters: wire name -> wire value
    last,      \* history: wire name -> the typed value most recently set for it
    nsets,     \* history: number of set applications in the current call
    request,   \* the GET handed to the transport: [sent, url, query]
    gets,      \* history: number of GET requests issued by the current call
    decodes,   \* history: number of times the current call ran deserialize
    transport, \* the transport's outcome:
               \* "none" | "sent" | "send_err" | "json_err" | "ok"
    body,      \* the serde_json::Value under decode
    result,    \* the Result<Activity, Error> of the current call
    vcrit,     \* the wire name of the criterion whose predicate is applied
    vval,      \* the value the predicate is applied to
    verdict    \* the predicate's answer: "none" | "true" | "false"

vars == <<pc, entry, sel, last, nsets, request, gets, decodes, transport,
          body, result, vcrit, vval, verdict>>

-----------------------------------------------------------------------------
(* Bounds of the model. *)

\* Largest magnitude, in tenths, of the finite f64 values drawn as inputs.
MaxTenths == 12

\* Largest number of set applications a selector closure makes in one call.
MaxSets == 3

\* Largest number of fields in which a decoded payload differs from the
\* reference payload.
MaxVaried == 2

-----------------------------------------------------------------------------
(* Characters, strings and Option. *)

None == [some |-> FALSE]

Some(x) == [some |-> TRUE, v |-> x]

DigitChars == <<"0", "1", "2", "3", "4", "5", "6", "7", "8", "9">>

LowerChars == <<"a", "b", "c", "d", "e", "f", "g", "h", "i", "j", "k", "l", "m",
                "n", "o", "p", "q", "r", "s", "t", "u", "v", "w", "x", "y", "z">>

UpperChars == <<"A", "B", "C", "D", "E", "F", "G", "H", "I", "J", "K", "L", "M",
                "N", "O", "P", "Q", "R", "S", "T", "U", "V", "W", "X", "Y", "Z">>

Range(s) == {s[i] : i \in DOMAIN s}

IsDigitChar(c) == c \in Range(DigitChars)

IsAlphaChar(c) == c \in Range(LowerChars) \cup Range(UpperChars)

\* char::to_digit(10) of a decimal digit character
DigitOf(c) == (CHOOSE i \in DOMAIN DigitChars : DigitChars[i] = c) - 1

\* char::to_ascii_lowercase
ToLowerChar(c) ==
    IF c \in Range(UpperChars)
    THEN LowerChars[CHOOSE i \in DOMAIN UpperChars : UpperChars[i] = c]
    ELSE c

ToLowerStr(s) == [i \in DOMAIN s |-> ToLowerChar(s[i])]

-----------------------------------------------------------------------------
(* u64: canonical decimal digit sequences. *)

U64_MAX == <<1, 8, 4, 4, 6, 7, 4, 4, 0, 7, 3, 7, 0, 9, 5, 5, 1, 6, 1, 5>>

RECURSIVE StripZeros(_)
StripZeros(d) ==
    IF Len(d) > 1 /\ d[1] = 0 THEN StripZeros(Tail(d)) ELSE d

RECURSIVE Digits(_)
\* the digit sequence of a natural number
Digits(n) == IF n < 10 THEN <<n>> ELSE Append(Digits(n \div 10), n % 10)

RECURSIVE ValueOf(_)
\* the natural number of a digit sequence (small values only)
ValueOf(d) == IF d = <<>> THEN 0 ELSE 10 * ValueOf(SubSeq(d, 1, Len(d) - 1)) + d[Len(d)]

RECURSIVE LexLt(_, _)
LexLt(a, b) ==
    IF a = <<>> THEN FALSE
    ELSE IF a[1] # b[1] THEN a[1] < b[1]
    ELSE LexLt(Tail(a), Tail(b))

\* a < b on canonical digit sequences
U64Lt(a, b) == Len(a) < Len(b) \/ (Len(a) = Len(b) /\ LexLt(a, b))

U64Le(a, b) == a = b \/ U64Lt(a, b)

\* <u64 as Display>::to_string
U64ToString(d) == [i \in DOMAIN d |-> DigitChars[d[i] + 1]]

\* <u64 as FromStr>::from_str: an optional "+", then one or more decimal
\* digits whose value fits 64 bits; anything else is an error (None).
ParseU64(s) ==
    LET t == IF Len(s) > 0 /\ s[1] = "+" THEN Tail(s) ELSE s
    IN  IF Len(t) = 0 \/ \E i \in DOMAIN t : ~IsDigitChar(t[i])
        THEN None
        ELSE LET d == StripZeros([i \in DOMAIN t |-> DigitOf(t[i])])
             IN  IF U64Le(d, U64_MAX) THEN Some(d) ELSE None

-----------------------------------------------------------------------------
(* f64: [k, neg, m]: k = "fin" is (-1)^neg * m / 10; "inf" and "nan". *)

F64(neg, m) == [k |-> "fin", neg |-> neg, m |-> m]

F64Nan == [k |-> "nan", neg |-> FALSE, m |-> 0]

F64Inf(neg) == [k |-> "inf", neg |-> neg, m |-> 0]

\* IEEE 754 a <= b; every comparison with NaN is false, and -0.0 = 0.0
F64Le(a, b) ==
    /\ a.k # "nan"
    /\ b.k # "nan"
    /\ \/ a.k = "inf" /\ a.neg
       \/ b.k = "inf" /\ ~b.neg
       \/ /\ a.k = "fin"
          /\ b.k = "fin"
          /\ (IF a.neg THEN 0 - a.m ELSE a.m) <= (IF b.neg THEN 0 - b.m ELSE b.m)

F64Lt(a, b) == F64Le(a, b) /\ ~F64Le(b, a)

\* <f64 as Display>::to_string: the shortest decimal, no exponent, no
\* trailing ".0"; the sign of a negative zero is printed.
F64ToString(f) ==
    CASE f.k = "nan" -> <<"N", "a", "N">>
      [] f.k = "inf" -> (IF f.neg THEN <<"-">> ELSE <<>>) \o <<"i", "n", "f">>
      [] OTHER ->
            (IF f.neg THEN <<"-">> ELSE <<>>)
            \o U64ToString(Digits(f.m \div 10))
            \o (IF f.m % 10 = 0 THEN <<>> ELSE <<".", DigitChars[(f.m % 10) + 1]>>)

-----------------------------------------------------------------------------
(* ActivityType and its wire strings (strum EnumString / ToString). *)

ActivityType == {"Education", "Recreational", "Social", "Diy", "Charity",
                 "Cooking", "Relaxation", "Music", "Busywork"}

\* #[strum(serialize = "...")], one per variant
Serialize ==
    [Education    |-> <<"e", "d", "u", "c", "a", "t", "i", "o", "n">>,
     Recreational |-> <<"r", "e", "c", "r", "e", "a", "t", "i", "o", "n", "a", "l">>,
     Social       |-> <<"s", "o", "c", "i", "a", "l">>,
     Diy          |-> <<"d", "i", "y">>,
     Charity      |-> <<"c", "h", "a", "r", "i", "t", "y">>,
     Cooking      |-> <<"c", "o", "o", "k", "i", "n", "g">>,
     Relaxation   |-> <<"r", "e", "l", "a", "x", "a", "t", "i", "o", "n">>,
     Music        |-> <<"m", "u", "s", "i", "c">>,
     Busywork     |-> <<"b", "u", "s", "y", "w", "o", "r", "k">>]

\* <ActivityType as ToString>::to_string
ActivityType_to_string(v) == Serialize[v]

\* a from_str that ignores ASCII case (strum's ascii_case_insensitive)
ActivityType_from_str_IgnoreCase(s) ==
    IF \E v \in ActivityType : Serialize[v] = ToLowerStr(s)
    THEN Some(CHOOSE v \in ActivityType : Serialize[v] = ToLowerStr(s))
    ELSE None

\* <ActivityType as FromStr>::from_str: the variant whose serialize string
\* is exactly s, else Err(VariantNotFound)
ActivityType_from_str(s) ==
    IF \E v \in ActivityType : Serialize[v] = s
    THEN Some(CHOOSE v \in ActivityType : Serialize[v] = s)
    ELSE None

-----------------------------------------------------------------------------
(* The criterion catalog: ActivityCriterion<T> { name, validate }. *)

\* typed values T: f64, u64, ActivityType
TF64(f) == [ty |-> "f64", f |-> f]

TU64(d) == [ty |-> "u64", d |-> d]

TType(a) == [ty |-> "ActivityType", a |-> a]

\* the values the predicates are applied to
F64Inputs ==
    {TF64(F64(neg, m)) : neg \in BOOLEAN, m \in 0..MaxTenths}
    \cup {TF64(F64Nan), TF64(F64Inf(TRUE)), TF64(F64Inf(FALSE))}

U64Inputs ==
    {TU64(Digits(n)) : n \in {0, 1, 999999, 1000000, 3943506, 9999998, 9999999, 10000000}}
    \cup {TU64(<<1, 8, 4, 4, 6, 7, 4, 4, 0, 7, 3, 7, 0, 9, 5, 5, 1, 6, 1, 4>>), TU64(U64_MAX)}

TypeInputs == {TType(a) : a \in ActivityType}

\* (start..end).contains(&v) for f64: start <= v && v < end
RangeContainsF64(start, end, v) == F64Le(start, v.f) /\ F64Lt(v.f, end)

\* (start..end).contains(&v) for u64
RangeContainsU64(start, end, v) == U64Le(start, v.d) /\ U64Lt(v.d, end)

\* |v| (0.0..1.0).contains(&v)
UnitInterval == [v \in F64Inputs |-> RangeContainsF64(F64(FALSE, 0), F64(FALSE, 10), v)]

EXACT_ACCESSIBILITY == [name |-> "accessibility", validate |-> UnitInterval]

EXACT_PRICE == [name |-> "price", validate |-> UnitInterval]

KEY ==
    [name |-> "key",
     validate |-> [v \in U64Inputs |-> RangeContainsU64(Digits(1000000), Digits(9999999), v)]]

MAX_ACCESSIBILITY == [name |-> "maxaccessibility", validate |-> UnitInterval]

MAX_PRICE == [name |-> "maxprice", validate |-> UnitInterval]

MIN_ACCESSIBILITY == [name |-> "minaccessibility", validate |-> UnitInterval]

MIN_PRICE == [name |-> "minprice", validate |-> UnitInterval]

PARTICIPANTS ==
    [name |-> "participants",
     validate |-> [v \in U64Inputs |-> RangeContainsU64(Digits(0), U64_MAX, v)]]

TYPE == [name |-> "type", validate |-> [v \in TypeInputs |-> TRUE]]

Catalog == {EXACT_ACCESSIBILITY, EXACT_PRICE, KEY, MAX_ACCESSIBILITY, MAX_PRICE,
            MIN_ACCESSIBILITY, MIN_PRICE, PARTICIPANTS, TYPE}

\* the criterion of a wire name
CriterionOf(name) == CHOOSE c \in Catalog : c.name = name

-----------------------------------------------------------------------------
(* CriteriaSelection { parameters: HashMap<String, String> }. *)

\* HashMap::new()
EmptyMap == [n \in {} |-> <<>>]

\* HashMap::insert: the binding at k is added or replaced
MapInsert(m, k, v) == [n \in DOMAIN m \cup {k} |-> IF n = k THEN v ELSE m[n]]

\* T::to_string of the value handed to set
to_string(value) ==
    CASE value.ty = "f64" -> F64ToString(value.f)
      [] value.ty = "u64" -> U64ToString(value.d)
      [] value.ty = "ActivityType" -> ActivityType_to_string(value.a)

\* a set that keeps the first binding of a name
set_KeepFirst(self, criterion, value) ==
    IF criterion.name \in DOMAIN self
    THEN self
    ELSE MapInsert(self, criterion.name, to_string(value))

\* a set that enforces the criterion's predicate
set_Validated(self, criterion, value) ==
    IF criterion.validate[value]
    THEN MapInsert(self, criterion.name, to_string(value))
    ELSE self

\* CriteriaSelection::set
set(self, criterion, value) == MapInsert(self, criterion.name, to_string(value))

\* CriteriaSelection::default()
CriteriaSelection_default == EmptyMap

-----------------------------------------------------------------------------
(* serde_json::Value and its accessors. *)

\* serde_json::Number: N::PosInt(u64), N::NegInt(i64) (always negative; d is
\* its magnitude), N::Float(f64) (always finite)
PosInt(d) == [k |-> "PosInt", d |-> d]

NegInt(d) == [k |-> "NegInt", d |-> d]

Float(f) == [k |-> "Float", f |-> f]

JNull == [t |-> "Null"]

JBool(b) == [t |-> "Bool", b |-> b]

JNumber(n) == [t |-> "Number", n |-> n]

JString(s) == [t |-> "String", s |-> s]

JArray(a) == [t |-> "Array", a |-> a]

JObject(m) == [t |-> "Object", m |-> m]

\* Value::get(&str): the member of an object; None for any other value
get(json, name) ==
    IF json.t = "Object" /\ name \in DOMAIN json.m THEN Some(json.m[name]) ELSE None

\* Value::as_str
as_str(v) == IF v.t = "String" THEN Some(v.s) ELSE None

\* an as_f64 that answers only for N::Float
as_f64_FloatOnly(v) ==
    IF v.t = "Number" /\ v.n.k = "Float" THEN Some(v.n.f) ELSE None

\* Value::as_f64: every number converts (n as f64, exact below 2^53)
as_f64(v) ==
    IF v.t # "Number" THEN None
    ELSE CASE v.n.k = "PosInt" -> Some(F64(FALSE, 10 * ValueOf(v.n.d)))
           [] v.n.k = "NegInt" -> Some(F64(TRUE, 10 * ValueOf(v.n.d)))
           [] v.n.k = "Float" -> Some(v.n.f)

\* Value::as_u64: only N::PosInt
as_u64(v) ==
    IF v.t = "Number" /\ v.n.k = "PosInt" THEN Some(v.n.d) ELSE None

-----------------------------------------------------------------------------
(* url::Url::parse, for strings over letters, digits and ":" "/" "." "+"   *)
(* "-": a scheme is required (no base URL), it is lower-cased, and a       *)
(* special scheme needs a host.                                            *)

S_http == <<"h", "t", "t", "p">>

S_https == <<"h", "t", "t", "p", "s">>

SpecialSchemes == {S_http, S_https}

\* the index of the first c in s, 0 when there is none
FirstIndex(s, c) ==
    IF \E i \in DOMAIN s : s[i] = c
    THEN CHOOSE i \in DOMAIN s : s[i] = c /\ \A j \in 1..(i - 1) : s[j] # c
    ELSE 0

RECURSIVE SkipSlashes(_)
SkipSlashes(s) == IF Len(s) > 0 /\ s[1] = "/" THEN SkipSlashes(Tail(s)) ELSE s

IsSchemeChar(c) == IsAlphaChar(c) \/ IsDigitChar(c) \/ c \in {"+", "-", "."}

Url_parse(s) ==
    LET colon == FirstIndex(s, ":")
        scheme == SubSeq(s, 1, colon - 1)
        rest == SubSeq(s, colon + 1, Len(s))
    IN  IF \/ colon <= 1
           \/ ~IsAlphaChar(s[1])
           \/ \E i \in DOMAIN scheme : ~IsSchemeChar(scheme[i])
        THEN None
        ELSE IF ToLowerStr(scheme) \in SpecialSchemes
        THEN LET auth == SkipSlashes(rest)
                 slash == FirstIndex(auth, "/")
                 host == IF slash = 0 THEN auth ELSE SubSeq(auth, 1, slash - 1)
                 path == IF slash = 0 THEN <<"/">> ELSE SubSeq(auth, slash, Len(auth))
             IN  IF host = <<>>
                 THEN None
                 ELSE Some([scheme |-> ToLowerStr(scheme),
                            host |-> ToLowerStr(host),
                            path |-> path])
        ELSE Some([scheme |-> ToLowerStr(scheme), host |-> <<>>, path |-> rest])

-----------------------------------------------------------------------------
(* Result<Activity, Error> and the decoder. *)

Ok(a) == [tag |-> "Ok", activity |-> a]

ApiError(s) == [tag |-> "ApiError", msg |-> s]

BadResponse == [tag |-> "BadResponse"]

HttpError == [tag |-> "HttpError"]

NoResult == [tag |-> "none"]

\* Activity::new
Activity_new(description, accessibility, activity_type, participants, price, link, key) ==
    [description |-> description,
     accessibility |-> accessibility,
     activity_type |-> activity_type,
     participants |-> participants,
     price |-> price,
     link |-> link,
     key |-> key]

\* extract_field!(name, extractor): None stands for the early return of
\* Err(BadResponse), on an absent member and on a member of another type
extract_field(json, name, extractor) ==
    LET member == get(json, name)
    IN  IF ~member.some THEN None
        ELSE CASE extractor = "as_str" -> as_str(member.v)
               [] extractor = "as_f64" -> as_f64(member.v)
               [] extractor = "as_u64" -> as_u64(member.v)

\* a link arm without the "" pattern: every string goes to Url::parse
link_of_NoEmptyArm(s) ==
    IF Url_parse(s).some THEN Some(Url_parse(s)) ELSE None

\* match link { "" => None, s => Some(Url::parse(s).map_err(..)?) }:
\* Some(the Option<Url>), or None for the early return of Err(BadResponse)
link_of(s) ==
    IF s = <<>> THEN Some(None)
    ELSE IF Url_parse(s).some THEN Some(Url_parse(s)) ELSE None

\* a key parse that falls back to 0 (unwrap_or_default)
key_of_OrZero(s) ==
    IF ParseU64(s).some THEN ParseU64(s) ELSE Some(<<0>>)

\* key.parse::<u64>().map_err(|e| Error::BadResponse)?
key_of(s) == ParseU64(s)

\* the success branch: the fields in the order of Activity::new's arguments,
\* the first failure returning Err(BadResponse)
activity_of(json) ==
    LET description == extract_field(json, "activity", "as_str")
        accessibility == extract_field(json, "accessibility", "as_f64")
        type == extract_field(json, "type", "as_str")
        participants == extract_field(json, "participants", "as_u64")
        price == extract_field(json, "price", "as_f64")
        link == extract_field(json, "link", "as_str")
        key == extract_field(json, "key", "as_str")
    IN  IF /\ description.some
           /\ accessibility.some
           /\ type.some
           /\ ActivityType_from_str(type.v).some
           /\ participants.some
           /\ price.some
           /\ link.some
           /\ link_of(link.v).some
           /\ key.some
           /\ key_of(key.v).some
        THEN Ok(Activity_new(description.v,
                             accessibility.v,
                             ActivityType_from_str(type.v).v,
                             participants.v,
                             price.v,
                             link_of(link.v).v,
                             key_of(key.v).v))
        ELSE BadResponse

\* the error branch: err.as_str().map(ApiError).unwrap_or(BadResponse)
error_of(err) ==
    IF as_str(err).some THEN ApiError(as_str(err).v) ELSE BadResponse

\* a decoder that takes the error branch only for a textual "error"
deserialize_ErrorIfString(json) ==
    IF get(json, "error").some /\ as_str(get(json, "error").v).some
    THEN error_of(get(json, "error").v)
    ELSE activity_of(json)

\* BoredApi::deserialize
deserialize(json) ==
    IF get(json, "error").some
    THEN error_of(get(json, "error").v)
    ELSE activity_of(json)

-----------------------------------------------------------------------------
(* The payloads handed to the decoder. *)

S_LearnRust == <<"L", "e", "a", "r", "n", " ", "R", "u", "s", "t">>

S_NoActivity ==
    <<"N", "o", " ", "a", "c", "t", "i", "v", "i", "t", "y", " ", "f", "o", "u", "n",
     "d", " ", "w", "i", "t", "h", " ", "t", "h", "e", " ", "s", "p", "e", "c",
     "i", "f", "i", "e", "d", " ", "p", "a", "r", "a", "m", "e", "t", "e", "r", "s">>

S_key == <<"3", "9", "4", "3", "5", "0", "6">>

\* scenario 1 of the wire contract
Reference ==
    [activity      |-> JString(S_LearnRust),
     accessibility |-> JNumber(Float(F64(FALSE, 3))),
     type          |-> JString(Serialize["Education"]),
     participants  |-> JNumber(PosInt(<<1>>)),
     price         |-> JNumber(Float(F64(FALSE, 0))),
     key           |-> JString(S_key),
     link          |-> JString(<<>>)]

FieldNames == {"error", "activity", "accessibility", "type", "participants",
               "price", "key", "link"}

Numbers ==
    {PosInt(<<0>>), PosInt(<<1>>), PosInt(<<4>>), NegInt(<<1>>),
     Float(F64(FALSE, 0)), Float(F64(FALSE, 3)), Float(F64(FALSE, 10)),
     Float(F64(TRUE, 5)), Float(F64(FALSE, 15))}

TypeStrings ==
    {Serialize[v] : v \in ActivityType}
    \cup {<<"E", "d", "u", "c", "a", "t", "i", "o", "n">>,
          <<"s", "k", "y", "d", "i", "v", "i", "n", "g">>,
          <<"M", "U", "S", "I", "C">>,
          <<>>}

KeyStrings ==
    {S_key,
     <<"1">>,
     <<"0", "0", "7">>,
     <<"+", "5">>,
     U64ToString(U64_MAX),
     <<"1", "8", "4", "4", "6", "7", "4", "4", "0", "7", "3", "7", "0", "9", "5", "5",
       "1", "6", "1", "6">>,
     <<"-", "1">>,
     <<"1", ".", "5">>,
     <<"x">>,
     <<"+">>,
     <<>>}

LinkStrings ==
    {<<>>,
     <<"h", "t", "t", "p", ":", "/", "/", "a", ".", "b", "/">>,
     <<"H", "T", "T", "P", ":", "/", "/", "A", ".", "b">>,
     <<"h", "t", "t", "p", "s", ":", "/", "/", "a", ".", "b", "/", "c">>,
     <<"m", "a", "i", "l", "t", "o", ":", "x">>,
     <<"a", ".", "b", "/", "c">>,
     <<"/", "/", "a", ".", "b", "/">>,
     <<"h", "t", "t", "p", ":", "/", "/">>,
     <<"1", "a", ":", "x">>}

\* the values a member may take; None is an absent member
Strings(S) == {Some(JString(s)) : s \in S}

NotAString == {None, Some(JNumber(PosInt(<<1>>))), Some(JNull)}

NotANumber == {None, Some(JString(<<"1">>)), Some(JNull)}

Options(name) ==
    CASE name = "error" ->
            Strings({S_NoActivity, <<>>})
            \cup {None, Some(JNumber(PosInt(<<4>>))), Some(JNull), Some(JBool(FALSE))}
      [] name = "activity" -> Strings({S_LearnRust, <<"X">>}) \cup NotAString
      [] name = "type" -> Strings(TypeStrings) \cup NotAString
      [] name = "key" -> Strings(KeyStrings) \cup NotAString
      [] name = "link" -> Strings(LinkStrings) \cup NotAString
      [] OTHER -> {Some(JNumber(n)) : n \in Numbers} \cup NotANumber

\* the member of the reference payload, absent for "error"
ReferenceOption(name) ==
    IF name \in DOMAIN Reference THEN Some(Reference[name]) ELSE None

\* the object whose members are given by choice: name -> Option<Value>
ObjectOf(choice) ==
    JObject([n \in {x \in FieldNames : choice[x].some} |-> choice[n].v])

\* the reference payload with the members in varied replaced
Vary(varied) ==
    ObjectOf([n \in FieldNames |->
                 IF n \in DOMAIN varied THEN varied[n] ELSE ReferenceOption(n)])

RECURSIVE Choices(_)
\* the ways to give every name of S one of its values
Choices(S) ==
    IF S = {}
    THEN {EmptyMap}
    ELSE LET n == CHOOSE x \in S : TRUE
         IN  {MapInsert(f, n, o) : f \in Choices(S \ {n}), o \in Options(n)}

\* the sets of members a payload varies
VariedSets == {T \in SUBSET FieldNames : Cardinality(T) <= MaxVaried}

\* the objects that differ from the reference payload in the members S
Objects(S) == {Vary(varied) : varied \in Choices(S)}

\* values whose top level is no object
NonObjects ==
    {JNull, JBool(TRUE), JNumber(PosInt(<<4>>)), JString(<<"e", "r", "r", "o", "r">>),
     JArray(<<>>), JArray(<<JObject(Reference)>>),
     JArray(<<JObject([error |-> JString(S_NoActivity)])>>)}

-----------------------------------------------------------------------------
(* The client facade: BoredApi::random and BoredApi::by_criteria. *)

\* BoredApi::default().url
ApiUrl ==
    <<"h", "t", "t", "p", ":", "/", "/", "w", "w", "w", ".", "b", "o", "r", "e",
     "d", "a", "p", "i", ".", "c", "o", "m", "/", "a", "p", "i", "/", "a",
     "c", "t", "i", "v", "i", "t", "y">>

NoRequest == [sent |-> FALSE, url |-> <<>>, query |-> EmptyMap]

\* self.client.get(self.url).query(&sel.parameters)
get_request(url, parameters) == [sent |-> TRUE, url |-> url, query |-> parameters]

\* a random with a query of its own
random_selector_OwnQuery(s) == set(s, TYPE, TType("Recreational"))

\* the selector random hands to by_criteria: |s| s
random_selector(s) == s

\* a response arm that decodes a default body when the body is no JSON
on_json_DecodeAnyway(ok, val) ==
    [result |-> deserialize(IF ok THEN val ELSE JNull), decoded |-> 1]

\* match r.json().await { Ok(val) => self.deserialize(val),
\*                        Err(r) => Err(HttpError(r)) }
on_json(ok, val) ==
    IF ok
    THEN [result |-> deserialize(val), decoded |-> 1]
    ELSE [result |-> HttpError, decoded |-> 0]

\* the values a selector closure hands to set, by the criterion's type
SetValues(c) ==
    CASE c.name \in {"key", "participants"} ->
            {TU64(<<1>>), TU64(Digits(3943506)), TU64(U64_MAX)}
      [] c.name = "type" -> {TType("Busywork"), TType("Education")}
      [] OTHER -> {TF64(F64(TRUE, 10)), TF64(F64(FALSE, 3)), TF64(F64(FALSE, 10))}

\* the bodies the service answers with
Bodies ==
    {JObject(Reference),
     Vary([n \in {"type"} |-> Some(JString(Serialize["Busywork"]))]),
     JObject([error |-> JString(S_NoActivity)]),
     JObject([error |-> JNull]),
     Vary([n \in {"key"} |-> None]),
     JArray(<<>>)}

Init ==
    /\ pc = "idle"
    /\ entry = "none"
    /\ sel = EmptyMap
    /\ last = EmptyMap
    /\ nsets = 0
    /\ request = NoRequest
    /\ gets = 0
    /\ decodes = 0
    /\ transport = "none"
    /\ body = JNull
    /\ result = NoResult
    /\ vcrit = "none"
    /\ vval = TType("Education")
    /\ verdict = "none"

\* random(): by_criteria with the identity selector, up to the send
Random ==
    /\ pc = "idle"
    /\ entry' = "random"
    /\ sel' = random_selector(CriteriaSelection_default)
    /\ pc' = "selected"
    /\ UNCHANGED <<last, nsets, request, gets, decodes, transport, body, result,
                   vcrit, vval, verdict>>

\* by_criteria(selection): the fresh selection the selector starts from
ByCriteria ==
    /\ pc = "idle"
    /\ entry' = "by_criteria"
    /\ sel' = CriteriaSelection_default
    /\ pc' = "selecting"
    /\ UNCHANGED <<last, nsets, request, gets, decodes, transport, body, result,
                   vcrit, vval, verdict>>

\* one set application of the selector closure
SelectorSet ==
    /\ pc = "selecting"
    /\ nsets < MaxSets
    /\ \E c \in Catalog : \E v \in SetValues(c) :
          /\ sel' = set(sel, c, v)
          /\ last' = MapInsert(last, c.name, v)
    /\ nsets' = nsets + 1
    /\ UNCHANGED <<pc, entry, request, gets, decodes, transport, body, result,
                   vcrit, vval, verdict>>

\* send().await answers Ok(r)
SendOk ==
    /\ pc \in {"selecting", "selected"}
    /\ request' = get_request(ApiUrl, sel)
    /\ gets' = gets + 1
    /\ transport' = "sent"
    /\ pc' = "awaiting_json"
    /\ UNCHANGED <<entry, sel, last, nsets, decodes, body, result, vcrit, vval, verdict>>

\* send().await answers Err(r): Err(HttpError(r))
SendErr ==
    /\ pc \in {"selecting", "selected"}
    /\ request' = get_request(ApiUrl, sel)
    /\ gets' = gets + 1
    /\ transport' = "send_err"
    /\ result' = HttpError
    /\ pc' = "done"
    /\ UNCHANGED <<entry, sel, last, nsets, decodes, body, vcrit, vval, verdict>>

\* r.json().await answers Ok(val): the value is decoded
JsonOk ==
    /\ pc = "awaiting_json"
    /\ \E val \in Bodies :
          /\ body' = val
          /\ result' = on_json(TRUE, val).result
          /\ decodes' = decodes + on_json(TRUE, val).decoded
    /\ transport' = "ok"
    /\ pc' = "done"
    /\ UNCHANGED <<entry, sel, last, nsets, request, gets, vcrit, vval, verdict>>

\* r.json().await answers Err(r): the body cannot be read or is no JSON
JsonErr ==
    /\ pc = "awaiting_json"
    /\ result' = on_json(FALSE, body).result
    /\ decodes' = decodes + on_json(FALSE, body).decoded
    /\ transport' = "json_err"
    /\ pc' = "done"
    /\ UNCHANGED <<entry, sel, last, nsets, request, gets, body, vcrit, vval, verdict>>

\* the call has returned; the next call starts afresh
Return ==
    /\ pc = "done"
    /\ pc' = "idle"
    /\ entry' = "none"
    /\ sel' = EmptyMap
    /\ last' = EmptyMap
    /\ nsets' = 0
    /\ request' = NoRequest
    /\ gets' = 0
    /\ decodes' = 0
    /\ transport' = "none"
    /\ body' = JNull
    /\ result' = NoResult
    /\ UNCHANGED <<vcrit, vval, verdict>>

Next ==
    \/ Random
    \/ ByCriteria
    \/ SelectorSet
    \/ SendOk
    \/ SendErr
    \/ JsonOk
    \/ JsonErr
    \/ Return

Spec == Init /\ [][Next]_vars

-----------------------------------------------------------------------------
(* The decoder alone, applied to every payload. *)

InitDecode ==
    /\ pc = "decode"
    /\ entry = "none"
    /\ sel = EmptyMap
    /\ last = EmptyMap
    /\ nsets = 0
    /\ request = NoRequest
    /\ gets = 0
    /\ decodes = 0
    /\ transport = "ok"
    /\ \/ body \in NonObjects
       \/ \E S \in VariedSets : body \in Objects(S)
    /\ result = NoResult
    /\ vcrit = "none"
    /\ vval = TType("Education")
    /\ verdict = "none"

Decode ==
    /\ pc = "decode"
    /\ result' = deserialize(body)
    /\ decodes' = decodes + 1
    /\ pc' = "decoded"
    /\ UNCHANGED <<entry, sel, last, nsets, request, gets, transport, body,
                   vcrit, vval, verdict>>

NextDecode == Decode

SpecDecode == InitDecode /\ [][NextDecode]_vars

-----------------------------------------------------------------------------
(* The validation predicates alone, applied to every value of their type. *)

InitValidate ==
    /\ pc = "validate"
    /\ entry = "none"
    /\ sel = EmptyMap
    /\ last = EmptyMap
    /\ nsets = 0
    /\ request = NoRequest
    /\ gets = 0
    /\ decodes = 0
    /\ transport = "none"
    /\ body = JNull
    /\ result = NoResult
    /\ vcrit \in {c.name : c \in Catalog}
    /\ vval \in DOMAIN CriterionOf(vcrit).validate
    /\ verdict = "none"

\* (criterion.validate)(value)
Validate ==
    /\ pc = "validate"
    /\ verdict' = IF CriterionOf(vcrit).validate[vval] THEN "true" ELSE "false"
    /\ pc' = "validated"
    /\ UNCHANGED <<entry, sel, last, nsets, request, gets, decodes, transport,
                   body, result, vcrit, vval>>

NextValidate == Validate

SpecValidate == InitValidate /\ [][NextValidate]_vars

-----------------------------------------------------------------------------
(* Reference data of the properties: the wire contract's strings and the    *)
(* values they denote, written out independently of the operators above.   *)

NineWireStrings ==
    {<<"e", "d", "u", "c", "a", "t", "i", "o", "n">>,
     <<"r", "e", "c", "r", "e", "a", "t", "i", "o", "n", "a", "l">>,
     <<"s", "o", "c", "i", "a", "l">>,
     <<"d", "i", "y">>,
     <<"c", "h", "a", "r", "i", "t", "y">>,
     <<"c", "o", "o", "k", "i", "n", "g">>,
     <<"r", "e", "l", "a", "x", "a", "t", "i", "o", "n">>,
     <<"m", "u", "s", "i", "c">>,
     <<"b", "u", "s", "y", "w", "o", "r", "k">>}

\* numeric key strings within 64 bits, with the integers they denote
NumericKeys ==
    {[s |-> S_key, value |-> <<3, 9, 4, 3, 5, 0, 6>>],
     [s |-> <<"1">>, value |-> <<1>>],
     [s |-> <<"0", "0", "7">>, value |-> <<7>>],
     [s |-> U64ToString(U64_MAX), value |-> U64_MAX]}

\* key strings that denote no unsigned 64-bit integer
UnparseableKeys ==
    {<<"-", "1">>, <<"1", ".", "5">>, <<"x">>, <<"+">>, <<>>,
     <<"1", "8", "4", "4", "6", "7", "4", "4", "0", "7", "3", "7", "0", "9", "5", "5",
       "1", "6", "1", "6">>}

\* absolute URLs, with their parsed form
AbsoluteUrls ==
    {[s |-> <<"h", "t", "t", "p", ":", "/", "/", "a", ".", "b", "/">>,
      url |-> [scheme |-> S_http, host |-> <<"a", ".", "b">>, path |-> <<"/">>]],
     [s |-> <<"H", "T", "T", "P", ":", "/", "/", "A", ".", "b">>,
      url |-> [scheme |-> S_http, host |-> <<"a", ".", "b">>, path |-> <<"/">>]],
     [s |-> <<"h", "t", "t", "p", "s", ":", "/", "/", "a", ".", "b", "/", "c">>,
      url |-> [scheme |-> S_https, host |-> <<"a", ".", "b">>, path |-> <<"/", "c">>]],
     [s |-> <<"m", "a", "i", "l", "t", "o", ":", "x">>,
      url |-> [scheme |-> <<"m", "a", "i", "l", "t", "o">>, host |-> <<>>,
               path |-> <<"x">>]]}

\* non-empty link strings that are no URL
UnparseableLinks ==
    {<<"a", ".", "b", "/", "c">>,
     <<"/", "/", "a", ".", "b", "/">>,
     <<"h", "t", "t", "p", ":", "/", "/">>,
     <<"1", "a", ":", "x">>}

\* the wire strings of the values handed to set
ExpectedWire(value) ==
    CASE value = TF64(F64(TRUE, 10)) -> <<"-", "1">>
      [] value = TF64(F64(FALSE, 3)) -> <<"0", ".", "3">>
      [] value = TF64(F64(FALSE, 10)) -> <<"1">>
      [] value = TU64(<<1>>) -> <<"1">>
      [] value = TU64(<<3, 9, 4, 3, 5, 0, 6>>) -> S_key
      [] value = TU64(U64_MAX) ->
            <<"1", "8", "4", "4", "6", "7", "4", "4", "0", "7", "3", "7", "0", "9",
              "5", "5", "1", "6", "1", "5">>
      [] value = TType("Busywork") -> <<"b", "u", "s", "y", "w", "o", "r", "k">>
      [] value = TType("Education") -> <<"e", "d", "u", "c", "a", "t", "i", "o", "n">>

HasErrorKey(json) == json.t = "Object" /\ "error" \in DOMAIN json.m

Has(json, name, type) ==
    json.t = "Object" /\ name \in DOMAIN json.m /\ json.m[name].t = type

\* the real number of an f64 equals that of a JSON number
SameNumber(f, n) ==
    CASE n.k = "PosInt" -> f = F64(FALSE, 10 * ValueOf(n.d))
      [] n.k = "NegInt" -> f = F64(TRUE, 10 * ValueOf(n.d))
      [] n.k = "Float" -> f = n.f

\* activity, accessibility, type and price as the success shape wants them
FourValid(json) ==
    /\ Has(json, "activity", "String")
    /\ Has(json, "accessibility", "Number")
    /\ Has(json, "type", "String")
    /\ json.m["type"].s \in NineWireStrings
    /\ Has(json, "price", "Number")

\* the six required fields present and valid: participants an unsigned
\* integer, key a numeric string within 64 bits
SixValid(json) ==
    /\ FourValid(json)
    /\ Has(json, "participants", "Number")
    /\ json.m["participants"].n.k = "PosInt"
    /\ Has(json, "key", "String")
    /\ json.m["key"].s \in {k.s : k \in NumericKeys}

LinkValid(json) ==
    /\ Has(json, "link", "String")
    /\ json.m["link"].s \in {<<>>} \cup {u.s : u \in AbsoluteUrls}

\* the Activity a valid payload denotes
FieldsEqual(a, json) ==
    /\ a.description = json.m["activity"].s
    /\ SameNumber(a.accessibility, json.m["accessibility"].n)
    /\ a.activity_type \in ActivityType
    /\ Serialize[a.activity_type] = json.m["type"].s
    /\ a.participants = json.m["participants"].n.d
    /\ SameNumber(a.price, json.m["price"].n)
    /\ a.key = (CHOOSE k \in NumericKeys : k.s = json.m["key"].s).value
    /\ a.link = IF json.m["link"].s = <<>>
                THEN None
                ELSE Some((CHOOSE u \in AbsoluteUrls : u.s = json.m["link"].s).url)

-----------------------------------------------------------------------------
(* Properties of the decoder, checked under SpecDecode. *)

\* C1: a value whose top level has an "error" key never decodes to an
\* Activity: the result is ApiError(text) when the value at "error" is a
\* string with content text, and BadResponse when it is of any other type,
\* whatever the other members are.
C1_ErrorKeyDecidesResult ==
    (pc = "decoded" /\ HasErrorKey(body)) =>
        /\ result.tag # "Ok"
        /\ IF body.m["error"].t = "String"
           THEN result = ApiError(body.m["error"].s)
           ELSE result = BadResponse

\* C1 witness: every success-shape field present and valid beside a textual
\* "error": the decode answers ApiError with that text.
C1_Witness ==
    /\ pc = "decoded"
    /\ HasErrorKey(body)
    /\ SixValid(body)
    /\ LinkValid(body)
    /\ body.m["error"] = JString(S_NoActivity)
    /\ result = ApiError(S_NoActivity)

\* C2 as stated: a payload with no "error" key, activity a string,
\* accessibility, participants and price JSON numbers, type one of the nine
\* wire strings, key a numeric string and link empty or an absolute URL
\* decodes to Ok.
C2_AnyNumberDecodes ==
    (/\ pc = "decoded"
     /\ ~HasErrorKey(body)
     /\ FourValid(body)
     /\ Has(body, "participants", "Number")
     /\ Has(body, "key", "String")
     /\ body.m["key"].s \in {k.s : k \in NumericKeys}
     /\ LinkValid(body))
        => result.tag = "Ok"

\* C2 amended: a payload with no "error" key, activity a string,
\* accessibility and price numbers, type one of the nine wire strings,
\* participants a non-negative integer number, key a string of decimal
\* digits denoting at most 2^64 - 1, and link a string that is empty or an
\* absolute URL decodes to Ok(Activity), whose fields are the payload's
\* values.
C2_ValidPayloadDecodes ==
    (pc = "decoded" /\ ~HasErrorKey(body) /\ SixValid(body) /\ LinkValid(body)) =>
        /\ result.tag = "Ok"
        /\ FieldsEqual(result.activity, body)

\* C2 witness: a valid payload with an integer accessibility and a URL link
\* has been decoded to an Activity.
C2_Witness ==
    /\ pc = "decoded"
    /\ ~HasErrorKey(body)
    /\ SixValid(body)
    /\ LinkValid(body)
    /\ body.m["accessibility"].n.k = "PosInt"
    /\ body.m["link"].s # <<>>
    /\ result.tag = "Ok"
    /\ result.activity.link.some

\* the defects C3 lists: the top level is no object, a required field is
\* absent or of the wrong JSON type, the key is no unsigned integer, the
\* non-empty link is no URL
Defective(json) ==
    \/ json.t # "Object"
    \/ ~Has(json, "activity", "String")
    \/ ~Has(json, "accessibility", "Number")
    \/ ~Has(json, "type", "String")
    \/ ~Has(json, "participants", "Number")
    \/ ~Has(json, "price", "Number")
    \/ ~Has(json, "key", "String")
    \/ json.m["key"].s \in UnparseableKeys
    \/ (Has(json, "link", "String") /\ json.m["link"].s \in UnparseableLinks)

\* C3: a value without an "error" key that does not conform to the success
\* shape decodes to exactly BadResponse: never to an Activity, never to
\* ApiError; and no value without an "error" key decodes to ApiError.
C3_MalformedIsBadResponse ==
    (pc = "decoded" /\ ~HasErrorKey(body)) =>
        /\ result.tag \in {"Ok", "BadResponse"}
        /\ Defective(body) => result = BadResponse

\* C3 witness: a payload whose only defect is a key that is no number has
\* been decoded to BadResponse.
C3_Witness ==
    /\ pc = "decoded"
    /\ ~HasErrorKey(body)
    /\ FourValid(body)
    /\ LinkValid(body)
    /\ Has(body, "participants", "Number")
    /\ body.m["participants"].n.k = "PosInt"
    /\ Has(body, "key", "String")
    /\ body.m["key"].s = <<"x">>
    /\ result = BadResponse

\* C4 as stated: with the six required fields valid and no "error" key, an
\* absent link and an empty link both decode to an Activity with no link.
C4_AbsentOrEmptyLinkIsNoLink ==
    (/\ pc = "decoded"
     /\ ~HasErrorKey(body)
     /\ SixValid(body)
     /\ ("link" \notin DOMAIN body.m \/ body.m["link"] = JString(<<>>)))
        => (result.tag = "Ok" /\ result.activity.link = None)

\* C4 amended: with the six required fields valid and no "error" key, an
\* empty-string link decodes to an Activity with link = None, and an absent
\* link is a decode failure (BadResponse).
C4_EmptyLinkIsNoLink ==
    (pc = "decoded" /\ ~HasErrorKey(body) /\ SixValid(body)) =>
        /\ ("link" \in DOMAIN body.m /\ body.m["link"] = JString(<<>>))
              => (result.tag = "Ok" /\ result.activity.link = None)
        /\ "link" \notin DOMAIN body.m => result = BadResponse

\* C4 witness: a payload with the six required fields valid and an empty
\* link, other than the reference payload, has been decoded to an Activity
\* with no link.
C4_Witness ==
    /\ pc = "decoded"
    /\ ~HasErrorKey(body)
    /\ SixValid(body)
    /\ Has(body, "link", "String")
    /\ body.m["link"].s = <<>>
    /\ body # JObject(Reference)
    /\ result.tag = "Ok"
    /\ result.activity.link = None

\* C5: the wire mapping of ActivityType is a bijection onto the nine
\* lowercase strings: from_str(to_string(v)) = v, distinct variants have
\* distinct strings; any other string (such as "Education") fails to parse,
\* and an otherwise valid payload carrying it decodes to BadResponse; a
\* decoded Activity carries the variant of the payload's type string.
C5_WireMappingIsBijection ==
    /\ \A v \in ActivityType : ActivityType_from_str(ActivityType_to_string(v)) = Some(v)
    /\ \A v, w \in ActivityType :
          v # w => ActivityType_to_string(v) # ActivityType_to_string(w)
    /\ {ActivityType_to_string(v) : v \in ActivityType} = NineWireStrings
    /\ \A s \in TypeStrings \ NineWireStrings : ActivityType_from_str(s) = None
    /\ (pc = "decoded" /\ ~HasErrorKey(body) /\ Has(body, "type", "String")) =>
          /\ body.m["type"].s \notin NineWireStrings => result = BadResponse
          /\ result.tag = "Ok" =>
                ActivityType_to_string(result.activity.activity_type) = body.m["type"].s

\* C5 witness: an otherwise valid payload whose type is "Education" has
\* been decoded to BadResponse.
C5_Witness ==
    /\ pc = "decoded"
    /\ ~HasErrorKey(body)
    /\ body = Vary([n \in {"type"} |->
                       Some(JString(<<"E", "d", "u", "c", "a", "t", "i", "o", "n">>))])
    /\ result = BadResponse

-----------------------------------------------------------------------------
(* Properties of the builder and the facade, checked under Spec. *)

\* C6: after any sequence of set applications from the empty selection, the
\* selection binds exactly the wire names set at least once, each to the
\* wire string of the value most recently set for it.
C6_SetIsMapInsert ==
    /\ DOMAIN sel = DOMAIN last
    /\ \A n \in DOMAIN sel : sel[n] = ExpectedWire(last[n])
    /\ nsets = 0 => sel = EmptyMap
    /\ Cardinality(DOMAIN sel) <= nsets

\* C6 witness: two sets on the same criterion have left one binding.
C6_Witness ==
    /\ pc = "selecting"
    /\ nsets = 2
    /\ DOMAIN sel = {"accessibility"}
    /\ sel["accessibility"] = <<"0", ".", "3">>

\* C7: a call issues one GET and decodes at most once, in the order build,
\* send, body parse, decode: nothing is sent or decoded while the selection
\* is built, nothing is decoded before the body is parsed, a failed send or
\* body parse ends the call with HttpError without the decoder being run,
\* and the decoder runs only after both succeeded.
C7_OneGetThenDecode ==
    /\ gets <= 1
    /\ decodes <= 1
    /\ pc \in {"idle", "selecting", "selected"} =>
          (gets = 0 /\ decodes = 0 /\ ~request.sent /\ result = NoResult)
    /\ pc = "awaiting_json" => (gets = 1 /\ decodes = 0 /\ result = NoResult)
    /\ pc = "done" =>
          /\ gets = 1
          /\ transport \in {"send_err", "json_err", "ok"}
          /\ transport \in {"send_err", "json_err"} =>
                (result = HttpError /\ decodes = 0)
          /\ transport = "ok" => (decodes = 1 /\ result.tag # "HttpError")

\* C7 witness: a call whose body was no JSON has ended with HttpError, one
\* GET issued and the decoder not run.
C7_Witness ==
    /\ pc = "done"
    /\ transport = "json_err"
    /\ gets = 1
    /\ decodes = 0
    /\ result = HttpError

\* the result by_criteria gives for a transport outcome and a body
OutcomeOf(outcome, json) ==
    IF outcome \in {"send_err", "json_err"} THEN HttpError ELSE deserialize(json)

\* C8: random() and by_criteria(identity) issue the same GET, to the fixed
\* endpoint with the empty parameter set, and their result is the same
\* function of the transport outcome and the response body.
C8_RandomIsByCriteriaIdentity ==
    (entry = "random" \/ (entry = "by_criteria" /\ nsets = 0)) =>
        /\ sel = EmptyMap
        /\ pc \in {"awaiting_json", "done"} =>
              request = [sent |-> TRUE, url |-> ApiUrl, query |-> EmptyMap]
        /\ pc = "done" => result = OutcomeOf(transport, body)

\* C8 witness: a random() call has returned an Activity.
C8_Witness ==
    /\ pc = "done"
    /\ entry = "random"
    /\ request.sent
    /\ result.tag = "Ok"

\* C10: set never consults the predicate: a value the predicate rejects is
\* bound like any other, the request carries it, and with an error-shaped
\* body the call returns ApiError with the service's text.
C10_SetIgnoresPredicate ==
    /\ \A n \in DOMAIN last : n \in DOMAIN sel /\ sel[n] = ExpectedWire(last[n])
    /\ pc \in {"awaiting_json", "done"} =>
          /\ request.sent
          /\ gets = 1
          /\ \A n \in DOMAIN last :
                n \in DOMAIN request.query /\ request.query[n] = ExpectedWire(last[n])
    /\ (pc = "done" /\ transport = "ok" /\ Has(body, "error", "String")) =>
          result = ApiError(body.m["error"].s)

\* C10 witness: by_criteria with EXACT_ACCESSIBILITY set to -1.0, which the
\* predicate rejects, has sent accessibility=-1 and returned the service's
\* error text.
C10_Witness ==
    /\ pc = "done"
    /\ "accessibility" \in DOMAIN last
    /\ last["accessibility"] = TF64(F64(TRUE, 10))
    /\ ~EXACT_ACCESSIBILITY.validate[last["accessibility"]]
    /\ request.query["accessibility"] = <<"-", "1">>
    /\ body = JObject([error |-> JString(S_NoActivity)])
    /\ result = ApiError(S_NoActivity)

-----------------------------------------------------------------------------
(* Properties of the validation predicates, checked under SpecValidate. *)

\* the valid range the catalog tabulates for a criterion
InTabulatedRange(name, value) ==
    CASE name \in {"key"} ->
            /\ Len(value.d) = 7
            /\ 1000000 <= ValueOf(value.d)
            /\ ValueOf(value.d) < 9999999
      [] name \in {"participants", "type"} -> TRUE
      [] OTHER ->
            /\ value.f.k = "fin"
            /\ (value.f.neg => value.f.m = 0)
            /\ value.f.m < 10

\* C9: each criterion's predicate accepts exactly the values of its
\* tabulated range: [0.0, 1.0) for the six accessibility and price
\* criteria, [1000000, 9999999) for KEY, every u64 for PARTICIPANTS, every
\* variant for TYPE.
C9_PredicateAcceptsTabulatedRange ==
    pc = "validated" => (verdict = "true" <=> InTabulatedRange(vcrit, vval))

=============================================================================
